---- MODULE Spec2Model ----
(***************************************************************************)
(* Model of the `request` command of package marketdatarequest             *)
(* (src/unnamed/part_000): the package-level options, Validate, Execute    *)
(* and buildMessage.  Strings that the code converts with strings.ToUpper  *)
(* are sequences of one-character strings, so that the conversion is       *)
(* computed character by character; strings that are only copied (symbols, *)
(* request ids, version identifiers) are plain strings.  Durations are     *)
(* whole seconds.                                                          *)
(***************************************************************************)
EXTENDS Integers, Sequences, FiniteSets, TLC

VARIABLES
    optionTypes,     \* var optionTypes []string
    optionSymbols,   \* var optionSymbols []string
    optionFullSnap,  \* var optionFullSnap bool
    optionSubType,   \* var optionSubType string
    optionMDReqID,   \* var optionMDReqID string
    pc,              \* position of the command's flow of control
    err,             \* error returned to the invocation boundary
    optionsTimeout,  \* options.Timeout
    socketTimeout,   \* ctxInitiator.SocketTimeout
    session,         \* sessions[0]
    timeout,         \* local `timeout` of Execute
    elapsed,         \* seconds since time.After(timeout) was armed
    connected,       \* app.Connected: "open", "ready" (a value is deliverable), "closed"
    fromApp,         \* app.FromAppChan: "open", "ready", "closed"
    delivered,       \* inbound messages the engine has put on FromAppChan
    interrupt,       \* chan os.Signal of capacity 1
    securitylist,    \* local `securitylist` of Execute (result of buildMessage)
    calls            \* calls made on the engine and the adapter, in order

vars == <<optionTypes, optionSymbols, optionFullSnap, optionSubType, optionMDReqID,
          pc, err, optionsTimeout, socketTimeout, session, timeout, elapsed,
          connected, fromApp, delivered, interrupt, securitylist, calls>>

optionVars == <<optionTypes, optionSymbols, optionFullSnap, optionSubType>>
configVars == <<optionsTimeout, socketTimeout, session>>
chanVars == <<connected, fromApp, delivered, interrupt>>

-----------------------------------------------------------------------------
(* Bounds *)

MaxList == 2

MaxMsgs == 2

-----------------------------------------------------------------------------
(* Strings and strings.ToUpper *)

LowerLetters == <<"a","b","c","d","e","f","g","h","i","j","k","l","m",
                  "n","o","p","q","r","s","t","u","v","w","x","y","z">>

UpperLetters == <<"A","B","C","D","E","F","G","H","I","J","K","L","M",
                  "N","O","P","Q","R","S","T","U","V","W","X","Y","Z">>

\* unicode.ToUpper on the letters a..z
LowerToUpper ==
    [c \in {LowerLetters[i] : i \in 1..Len(LowerLetters)} |->
        UpperLetters[CHOOSE i \in 1..Len(LowerLetters) : LowerLetters[i] = c]]

UpperChar(c) == IF c \in DOMAIN LowerToUpper THEN LowerToUpper[c] ELSE c

ToUpper(s) == [i \in 1..Len(s) |-> UpperChar(s[i])]

\* Tokens given on the command line.
bid == <<"b","i","d">>
BID == <<"B","I","D">>
offer == <<"o","f","f","e","r">>
OFFER == <<"O","F","F","E","R">>
TRADE == <<"T","R","A","D","E">>
ask == <<"a","s","k">>
snapshot == <<"s","n","a","p","s","h","o","t">>
Snapshot == <<"S","n","a","p","s","h","o","t">>
SNAPSHOT == <<"S","N","A","P","S","H","O","T">>
stream == <<"s","t","r","e","a","m">>

-----------------------------------------------------------------------------
(* Package dict and package errors *)

\* dict.MDEntryTypes: upper-cased token -> enum.MDEntryType
MDEntryTypes == (BID :> "0") @@ (OFFER :> "1") @@ (TRADE :> "2")

\* dict.SubscriptionRequestTypes: upper-cased token -> enum.SubscriptionRequestType
SubscriptionRequestTypes == (SNAPSHOT :> "0")

\* Go map index: the value and whether the key is present; the zero value
\* (the empty string) when it is absent.
MapHas(m, k) == k \in DOMAIN m

MapGet(m, k) == IF k \in DOMAIN m THEN m[k] ELSE ""

NoError == "nil"
OptionsNoSymbolGiven == "errors.OptionsNoSymbolGiven"
OptionsNoTypeGiven == "errors.OptionsNoTypeGiven"
Options == "errors.Options"
ConnectionTimeout == "errors.ConnectionTimeout"
FixLogout == "errors.FixLogout"
FixVersionNotImplemented == "errors.FixVersionNotImplemented"

-----------------------------------------------------------------------------
(* Validate *)

\* Variant of HasUnknownType: the token is looked up as given.
RECURSIVE HasUnknownType_Exact(_, _)
HasUnknownType_Exact(types, i) ==
    IF i > Len(types) THEN FALSE
    ELSE IF ~MapHas(MDEntryTypes, types[i]) THEN TRUE
    ELSE HasUnknownType_Exact(types, i + 1)

\* `for _, t := range optionTypes`: TRUE when the scan from index i on finds
\* a token whose upper-cased form is no key of dict.MDEntryTypes.
RECURSIVE HasUnknownType(_, _)
HasUnknownType(types, i) ==
    IF i > Len(types) THEN FALSE
    ELSE IF ~MapHas(MDEntryTypes, ToUpper(types[i])) THEN TRUE
    ELSE HasUnknownType(types, i + 1)

\* Variant of Validate: the check for an empty optionTypes is missing.
Validate_NoTypesCheck(reconcileErr, symbols, types, subType, mdReqID, uid) ==
    IF reconcileErr # NoError THEN [err |-> reconcileErr, optionMDReqID |-> mdReqID]
    ELSE IF Len(symbols) = 0
    THEN [err |-> "errors.OptionsNoSymbolGiven", optionMDReqID |-> mdReqID]
    ELSE IF \E i \in 1..Len(types) : ~MapHas(MDEntryTypes, ToUpper(types[i]))
    THEN [err |-> "errors.Options", optionMDReqID |-> mdReqID]
    ELSE IF ~MapHas(SubscriptionRequestTypes, ToUpper(subType))
    THEN [err |-> "errors.Options", optionMDReqID |-> mdReqID]
    ELSE IF mdReqID = ""
    THEN [err |-> NoError, optionMDReqID |-> uid]
    ELSE [err |-> NoError, optionMDReqID |-> mdReqID]

\* Variant of Validate: the request id is generated on every call.
Validate_AlwaysGenerates(reconcileErr, symbols, types, subType, mdReqID, uid) ==
    IF reconcileErr # NoError THEN [err |-> reconcileErr, optionMDReqID |-> mdReqID]
    ELSE IF Len(symbols) = 0
    THEN [err |-> "errors.OptionsNoSymbolGiven", optionMDReqID |-> mdReqID]
    ELSE IF Len(types) = 0
    THEN [err |-> "errors.OptionsNoTypeGiven", optionMDReqID |-> mdReqID]
    ELSE IF \E i \in 1..Len(types) : ~MapHas(MDEntryTypes, ToUpper(types[i]))
    THEN [err |-> "errors.Options", optionMDReqID |-> mdReqID]
    ELSE IF ~MapHas(SubscriptionRequestTypes, ToUpper(subType))
    THEN [err |-> "errors.Options", optionMDReqID |-> mdReqID]
    ELSE [err |-> NoError, optionMDReqID |-> uid]

\* The result of Validate: the error returned and the value optionMDReqID
\* holds afterwards.  reconcileErr is the outcome of utils.ReconcileBoolFlags
\* and uid the string of uuid.New().
Validate(reconcileErr, symbols, types, subType, mdReqID, uid) ==
    IF reconcileErr # NoError THEN [err |-> reconcileErr, optionMDReqID |-> mdReqID]
    ELSE IF Len(symbols) = 0
    THEN [err |-> OptionsNoSymbolGiven, optionMDReqID |-> mdReqID]
    ELSE IF Len(types) = 0
    THEN [err |-> OptionsNoTypeGiven, optionMDReqID |-> mdReqID]
    ELSE IF HasUnknownType(types, 1)
    THEN [err |-> Options, optionMDReqID |-> mdReqID]
    ELSE IF ~MapHas(SubscriptionRequestTypes, ToUpper(subType))
    THEN [err |-> Options, optionMDReqID |-> mdReqID]
    ELSE IF mdReqID = ""
    THEN [err |-> NoError, optionMDReqID |-> uid]
    ELSE [err |-> NoError, optionMDReqID |-> mdReqID]

-----------------------------------------------------------------------------
(* buildMessage *)

MsgType_MARKET_DATA_REQUEST == "V"
MDUpdateType_FULL_REFRESH == "0"
MDUpdateType_INCREMENTAL_REFRESH == "1"
BeginStringFIXT11 == "FIXT.1.1"

Nil == [kind |-> "nil"]

\* utils.QuickFixMessagePartSetString: the field is set only when the value
\* is not empty.
QuickFixMessagePartSetString(header, tagName, value) ==
    IF value = "" THEN header ELSE (tagName :> value) @@ header

\* `for _, t := range optionTypes { entryTypes.Add().Set(...) }`: one group
\* instance appended per element, from index i on.
RECURSIVE AddEntryTypes(_, _, _)
AddEntryTypes(group, types, i) ==
    IF i > Len(types) THEN group
    ELSE AddEntryTypes(
            Append(group, [MDEntryType |-> MapGet(MDEntryTypes, ToUpper(types[i]))]),
            types, i + 1)

\* Variant of AddRelatedSym: a symbol already in the group is not added again.
RECURSIVE AddRelatedSym_Dedup(_, _, _)
AddRelatedSym_Dedup(group, symbols, i) ==
    IF i > Len(symbols) THEN group
    ELSE IF \E j \in 1..Len(group) : group[j].Symbol = symbols[i]
    THEN AddRelatedSym_Dedup(group, symbols, i + 1)
    ELSE AddRelatedSym_Dedup(Append(group, [Symbol |-> symbols[i]]), symbols, i + 1)

\* `for _, sym := range optionSymbols { relatedSym.Add().Set(...) }`
RECURSIVE AddRelatedSym(_, _, _)
AddRelatedSym(group, symbols, i) ==
    IF i > Len(symbols) THEN group
    ELSE AddRelatedSym(Append(group, [Symbol |-> symbols[i]]), symbols, i + 1)

\* Variant of Supported: the inner switch has no default case.
Supported_OnlyBeginString(sess) == sess.BeginString = "FIXT.1.1"

\* The switch on session.BeginString and session.DefaultApplVerID.
Supported(sess) ==
    /\ sess.BeginString = BeginStringFIXT11
    /\ sess.DefaultApplVerID = "FIX.5.0SP2"

\* Variant of UpdateType: the two branches are exchanged.
UpdateType_Exchanged(fullSnap) ==
    IF fullSnap THEN "1" ELSE "0"

\* var updateType enum.MDUpdateType, set from optionFullSnap
UpdateType(fullSnap) ==
    IF fullSnap THEN MDUpdateType_FULL_REFRESH
    ELSE MDUpdateType_INCREMENTAL_REFRESH

\* buildMessage with the package-level options as explicit arguments.
BuildMessage(sess, mdReqID, subType, fullSnap, types, symbols) ==
    LET subReqType == MapGet(SubscriptionRequestTypes, ToUpper(subType))
        updateType == UpdateType(fullSnap)
        header0 == ("MsgType" :> MsgType_MARKET_DATA_REQUEST)
        header1 == QuickFixMessagePartSetString(header0, "TargetCompID", sess.TargetCompID)
        header2 == QuickFixMessagePartSetString(header1, "TargetSubID", sess.TargetSubID)
        header3 == QuickFixMessagePartSetString(header2, "SenderCompID", sess.SenderCompID)
        header4 == QuickFixMessagePartSetString(header3, "SenderSubID", sess.SenderSubID)
    IN  IF Supported(sess)
        THEN [msg |-> [kind |-> "message",
                       Header |-> header4,
                       MDReqID |-> mdReqID,
                       SubscriptionRequestType |-> subReqType,
                       MarketDepth |-> 0,
                       MDUpdateType |-> updateType,
                       NoMDEntryTypes |-> AddEntryTypes(<<>>, types, 1),
                       NoRelatedSym |-> AddRelatedSym(<<>>, symbols, 1)],
              err |-> NoError]
        ELSE [msg |-> Nil, err |-> FixVersionNotImplemented]

\* Variant of buildMessage: the request id is not taken from optionMDReqID.
buildMessage_OwnID(sess) ==
    BuildMessage(sess, "uuid-1", optionSubType, optionFullSnap,
                 optionTypes, optionSymbols)

buildMessage(sess) ==
    BuildMessage(sess, optionMDReqID, optionSubType, optionFullSnap,
                 optionTypes, optionSymbols)

-----------------------------------------------------------------------------
(* Inputs *)

\* Sequences over S of length at most n.
SeqUpTo(S, n) == UNION {[1..k -> S] : k \in 0..n}

TypeTokens == {bid, BID, offer, ask}
SubTypeTokens == {snapshot, Snapshot, stream}
Symbols == {"EUR/USD", "USD/JPY"}
MDReqIDs == {"", "req-1"}
UUIDs == {"uuid-1", "uuid-2"}

\* Session definitions of the current context: the version pair varies, the
\* routing identifiers are those of one counterparty link.
Sessions ==
    [BeginString : {BeginStringFIXT11, "FIX.4.4"},
     DefaultApplVerID : {"FIX.5.0SP2", "FIX.5.0SP1"},
     TargetCompID : {"ACCEPTOR"}, TargetSubID : {""},
     SenderCompID : {"INITIATOR"}, SenderSubID : {""}]

NoSession ==
    [BeginString |-> "", DefaultApplVerID |-> "", TargetCompID |-> "",
     TargetSubID |-> "", SenderCompID |-> "", SenderSubID |-> ""]

\* Durations in seconds given to --timeout and to the initiator's SocketTimeout;
\* time.Duration is signed.
OptionTimeouts == {0 - 1, 0, 1}
SocketTimeouts == {0, 2}

\* Command lines of whole runs of the command.
RunTypes == {<<>>, <<bid, offer>>, <<BID>>, <<bid, ask>>}
RunSymbols == {<<>>, <<"EUR/USD">>, <<"EUR/USD", "USD/JPY">>}
RunSubTypes == {snapshot, stream}

\* State shared by every initial state: nothing has run yet.
InitRest ==
    /\ pc = "PersistentPreRunE"
    /\ err = NoError
    /\ optionsTimeout = 0
    /\ socketTimeout = 0
    /\ session = NoSession
    /\ timeout = 0
    /\ elapsed = 0
    /\ connected = "open"
    /\ fromApp = "open"
    /\ delivered = 0
    /\ interrupt = <<>>
    /\ securitylist = Nil
    /\ calls = <<>>

Init ==
    /\ optionTypes \in RunTypes
    /\ optionSymbols \in RunSymbols
    /\ optionFullSnap \in BOOLEAN
    /\ optionSubType \in RunSubTypes
    /\ optionMDReqID \in MDReqIDs
    /\ InitRest

InitBuild ==
    /\ optionTypes \in SeqUpTo(TypeTokens, MaxList)
    /\ optionSymbols \in SeqUpTo(Symbols, MaxList)
    /\ optionFullSnap \in BOOLEAN
    /\ optionSubType \in SubTypeTokens
    /\ optionMDReqID \in MDReqIDs
    /\ InitRest

-----------------------------------------------------------------------------
(* MarketDataRequestCmd.PersistentPreRunE *)

ReconcileError == "utils.ReconcileBoolFlags error"
ParentPreRunError == "parent.PersistentPreRunE error"

\* Validate, then the parent command's PersistentPreRunE; RunE (Execute)
\* runs only when this returns nil.
PersistentPreRunE ==
    /\ pc = "PersistentPreRunE"
    /\ \E reconcileErr \in {NoError, ReconcileError}, uid \in UUIDs,
          parentErr \in {NoError, ParentPreRunError} :
          LET r == Validate(reconcileErr, optionSymbols, optionTypes,
                            optionSubType, optionMDReqID, uid)
          IN  /\ optionMDReqID' = r.optionMDReqID
              /\ IF r.err # NoError
                 THEN /\ err' = r.err
                      /\ pc' = "exit"
                 ELSE IF parentErr # NoError
                 THEN /\ err' = parentErr
                      /\ pc' = "exit"
                 ELSE /\ err' = NoError
                      /\ pc' = "Execute"
    /\ UNCHANGED <<optionVars, configVars, timeout, elapsed, chanVars,
                   securitylist, calls>>

-----------------------------------------------------------------------------
(* Execute *)

ResolveErrors ==
    {"config.GetCurrentContext error", "context.GetSessions error",
     "context.GetInitiator error", "session.GetFIXDictionaries error",
     "context.ToQuickFixInitiatorSettings error", "initiator.Initiate error"}
StartError == "init.Start error"
SendError == "quickfix.Send error"

DefaultTimeout == 5

InterruptCap == 1

\* Execute up to initiator.Initiate: the options, the context's first session
\* and its initiator are read, the adapter and the initiator are built; each
\* step that fails returns its error.
ExecuteResolve ==
    /\ pc = "Execute"
    /\ \E e \in ResolveErrors \cup {NoError} :
          IF e # NoError
          THEN /\ err' = e
               /\ pc' = "returned"
               /\ UNCHANGED configVars
          ELSE /\ optionsTimeout' \in OptionTimeouts
               /\ socketTimeout' \in SocketTimeouts
               /\ session' \in Sessions
               /\ pc' = "Start"
               /\ err' = NoError
    /\ UNCHANGED <<optionVars, optionMDReqID, timeout, elapsed, chanVars,
                   securitylist, calls>>

\* err = init.Start()
Start ==
    /\ pc = "Start"
    /\ calls' = Append(calls, "init.Start")
    /\ \E e \in {NoError, StartError} :
          IF e # NoError
          THEN /\ err' = e
               /\ pc' = "returned"
          ELSE /\ err' = NoError
               /\ pc' = "timeout"
    /\ UNCHANGED <<optionVars, optionMDReqID, configVars, timeout, elapsed,
                   chanVars, securitylist>>

\* Variant of EffectiveTimeout: the configured socket timeout comes first.
EffectiveTimeout_ConfigFirst(cli, sock) ==
    IF sock # 0 THEN sock
    ELSE IF cli # 0 THEN cli
    ELSE 5

\* cli option > config > default value (5s)
EffectiveTimeout(cli, sock) ==
    IF cli # 0 THEN cli
    ELSE IF sock # 0 THEN sock
    ELSE DefaultTimeout

\* The timeout is chosen and time.After(timeout) is armed.
ChooseTimeout ==
    /\ pc = "timeout"
    /\ timeout' = EffectiveTimeout(optionsTimeout, socketTimeout)
    /\ elapsed' = 0
    /\ pc' = "select"
    /\ UNCHANGED <<optionVars, optionMDReqID, configVars, err, chanVars,
                   securitylist, calls>>

\* Variant of SelectTimeout: the return is missing and Execute goes on.
SelectTimeout_FallsThrough ==
    /\ pc = "select"
    /\ elapsed >= timeout
    /\ pc' = "buildMessage"
    /\ UNCHANGED <<optionVars, optionMDReqID, configVars, err, timeout, elapsed,
                   chanVars, securitylist, calls>>

\* Variant of SelectTimeout: the timer fires only after more than the
\* timeout has elapsed.
SelectTimeout_StrictlyAfter ==
    /\ pc = "select"
    /\ elapsed > timeout
    /\ err' = "errors.ConnectionTimeout"
    /\ pc' = "returned"
    /\ UNCHANGED <<optionVars, optionMDReqID, configVars, timeout, elapsed,
                   chanVars, securitylist, calls>>

\* select: case <-time.After(timeout)
SelectTimeout ==
    /\ pc = "select"
    /\ elapsed >= timeout
    /\ err' = ConnectionTimeout
    /\ pc' = "returned"
    /\ UNCHANGED <<optionVars, optionMDReqID, configVars, timeout, elapsed,
                   chanVars, securitylist, calls>>

\* select: case _, ok := <-app.Connected, with ok
SelectConnected ==
    /\ pc = "select"
    /\ connected = "ready"
    /\ connected' = "open"
    /\ calls' = Append(calls, "<-app.Connected")
    /\ pc' = "buildMessage"
    /\ UNCHANGED <<optionVars, optionMDReqID, configVars, err, timeout, elapsed,
                   fromApp, delivered, interrupt, securitylist>>

\* Variant of SelectClosed: ok is not looked at.
SelectClosed_IgnoresOk ==
    /\ pc = "select"
    /\ connected = "closed"
    /\ calls' = Append(calls, "<-app.Connected")
    /\ pc' = "buildMessage"
    /\ UNCHANGED <<optionVars, optionMDReqID, configVars, err, timeout, elapsed,
                   chanVars, securitylist>>

\* select: case _, ok := <-app.Connected, with !ok
SelectClosed ==
    /\ pc = "select"
    /\ connected = "closed"
    /\ err' = FixLogout
    /\ pc' = "returned"
    /\ UNCHANGED <<optionVars, optionMDReqID, configVars, timeout, elapsed,
                   chanVars, securitylist, calls>>

\* securitylist, err := buildMessage(*session)
Build ==
    /\ pc = "buildMessage"
    /\ LET r == buildMessage(session)
       IN  /\ securitylist' = r.msg
           /\ err' = r.err
           /\ pc' = IF r.err # NoError THEN "returned" ELSE "Send"
    /\ UNCHANGED <<optionVars, optionMDReqID, configVars, timeout, elapsed,
                   chanVars, calls>>

\* Variant of Send: a failed send is tried once more.
Send_Retries ==
    /\ pc = "Send"
    /\ calls' = Append(calls, "quickfix.Send")
    /\ \E e \in {NoError, "quickfix.Send error"} :
          IF e # NoError
          THEN /\ err' = e
               /\ pc' = IF calls = <<"init.Start", "<-app.Connected">>
                        THEN "Send" ELSE "returned"
          ELSE /\ err' = NoError
               /\ pc' = "LOOP"
    /\ UNCHANGED <<optionVars, optionMDReqID, configVars, timeout, elapsed,
                   chanVars, securitylist>>

\* err = quickfix.Send(securitylist); on success the interrupt channel is
\* made and registered with signal.Notify.
Send ==
    /\ pc = "Send"
    /\ calls' = Append(calls, "quickfix.Send")
    /\ \E e \in {NoError, SendError} :
          IF e # NoError
          THEN /\ err' = e
               /\ pc' = "returned"
          ELSE /\ err' = NoError
               /\ pc' = "LOOP"
    /\ UNCHANGED <<optionVars, optionMDReqID, configVars, timeout, elapsed,
                   chanVars, securitylist>>

\* Variant of LoopSignal: the initiator is stopped before the adapter.
LoopSignal_StopsSwapped ==
    /\ pc = "LOOP"
    /\ interrupt # <<>>
    /\ interrupt' = Tail(interrupt)
    /\ calls' = calls \o <<"init.Stop", "app.Stop">>
    /\ err' = NoError
    /\ pc' = "returned"
    /\ UNCHANGED <<optionVars, optionMDReqID, configVars, timeout, elapsed,
                   connected, fromApp, delivered, securitylist>>

\* LOOP: case signal := <-interrupt
LoopSignal ==
    /\ pc = "LOOP"
    /\ interrupt # <<>>
    /\ interrupt' = Tail(interrupt)
    /\ calls' = calls \o <<"app.Stop", "init.Stop">>
    /\ err' = NoError
    /\ pc' = "returned"
    /\ UNCHANGED <<optionVars, optionMDReqID, configVars, timeout, elapsed,
                   connected, fromApp, delivered, securitylist>>

\* Variant of LoopFromApp: the loop is left once a message has been received.
LoopFromApp_LeavesAfterMessage ==
    /\ pc = "LOOP"
    /\ fromApp = "ready"
    /\ fromApp' = "open"
    /\ err' = NoError
    /\ pc' = "returned"
    /\ UNCHANGED <<optionVars, optionMDReqID, configVars, timeout,
                   elapsed, connected, delivered, interrupt, securitylist, calls>>

\* LOOP: case _, ok := <-app.FromAppChan, with ok
LoopFromApp ==
    /\ pc = "LOOP"
    /\ fromApp = "ready"
    /\ fromApp' = "open"
    /\ UNCHANGED <<optionVars, optionMDReqID, configVars, pc, err, timeout,
                   elapsed, connected, delivered, interrupt, securitylist, calls>>

\* Variant of LoopClosed: the closed channel is reported as a logout.
LoopClosed_ReturnsLogout ==
    /\ pc = "LOOP"
    /\ fromApp = "closed"
    /\ err' = "errors.FixLogout"
    /\ pc' = "returned"
    /\ UNCHANGED <<optionVars, optionMDReqID, configVars, timeout, elapsed,
                   chanVars, securitylist, calls>>

\* LOOP: case _, ok := <-app.FromAppChan, with !ok
LoopClosed ==
    /\ pc = "LOOP"
    /\ fromApp = "closed"
    /\ err' = NoError
    /\ pc' = "returned"
    /\ UNCHANGED <<optionVars, optionMDReqID, configVars, timeout, elapsed,
                   chanVars, securitylist, calls>>

-----------------------------------------------------------------------------
(* The environment: the clock, the engine and the operating system *)

\* One second passes while Execute waits for the connection.
Tick ==
    /\ pc = "select"
    /\ elapsed < timeout
    /\ elapsed' = elapsed + 1
    /\ UNCHANGED <<optionVars, optionMDReqID, configVars, pc, err, timeout,
                   chanVars, securitylist, calls>>

\* The started engine logs on: the adapter signals app.Connected.
EngineConnected ==
    /\ pc \in {"timeout", "select"}
    /\ connected = "open"
    /\ connected' = "ready"
    /\ UNCHANGED <<optionVars, optionMDReqID, configVars, pc, err, timeout,
                   elapsed, fromApp, delivered, interrupt, securitylist, calls>>

\* The started engine shuts down before connecting: app.Connected is closed.
EngineCloseConnected ==
    /\ pc \in {"timeout", "select"}
    /\ connected = "open"
    /\ connected' = "closed"
    /\ UNCHANGED <<optionVars, optionMDReqID, configVars, pc, err, timeout,
                   elapsed, fromApp, delivered, interrupt, securitylist, calls>>

\* An inbound application message is put on app.FromAppChan.
EngineFromApp ==
    /\ pc = "LOOP"
    /\ fromApp = "open"
    /\ delivered < MaxMsgs
    /\ fromApp' = "ready"
    /\ delivered' = delivered + 1
    /\ UNCHANGED <<optionVars, optionMDReqID, configVars, pc, err, timeout,
                   elapsed, connected, interrupt, securitylist, calls>>

\* Logout or disconnect: app.FromAppChan is closed.
EngineCloseFromApp ==
    /\ pc = "LOOP"
    /\ fromApp = "open"
    /\ fromApp' = "closed"
    /\ UNCHANGED <<optionVars, optionMDReqID, configVars, pc, err, timeout,
                   elapsed, connected, delivered, interrupt, securitylist, calls>>

\* os.Interrupt or syscall.SIGTERM is relayed to the interrupt channel;
\* signal.Notify drops it when the channel is full.
Signal ==
    /\ pc = "LOOP"
    /\ Len(interrupt) < InterruptCap
    /\ \E sig \in {"os.Interrupt", "syscall.SIGTERM"} :
          interrupt' = Append(interrupt, sig)
    /\ UNCHANGED <<optionVars, optionMDReqID, configVars, pc, err, timeout,
                   elapsed, connected, fromApp, delivered, securitylist, calls>>

Next ==
    \/ PersistentPreRunE
    \/ ExecuteResolve
    \/ Start
    \/ ChooseTimeout
    \/ SelectTimeout
    \/ SelectConnected
    \/ SelectClosed
    \/ Build
    \/ Send
    \/ LoopSignal
    \/ LoopFromApp
    \/ LoopClosed
    \/ Tick
    \/ EngineConnected
    \/ EngineCloseConnected
    \/ EngineFromApp
    \/ EngineCloseFromApp
    \/ Signal

Spec == Init /\ [][Next]_vars

\* The command's goroutine takes a step it can take (a select with a ready
\* case does not block, and chooses among ready cases at random), and time
\* passes while it waits on the timer.  Nothing is assumed of the engine or
\* of signals.
FairSpec ==
    /\ Spec
    /\ WF_vars(PersistentPreRunE)
    /\ WF_vars(ExecuteResolve)
    /\ WF_vars(Start)
    /\ WF_vars(ChooseTimeout)
    /\ WF_vars(SelectTimeout)
    /\ WF_vars(SelectConnected)
    /\ WF_vars(SelectClosed)
    /\ WF_vars(Build)
    /\ WF_vars(Send)
    /\ WF_vars(LoopSignal)
    /\ WF_vars(LoopFromApp)
    /\ WF_vars(LoopClosed)
    /\ WF_vars(Tick)

-----------------------------------------------------------------------------
(* buildMessage and Validate called on their own *)

\* buildMessage applied to the options as they stand, before or after
\* Validate has run, for some session.
BuildCall ==
    /\ pc \in {"PersistentPreRunE", "Execute"}
    /\ \E s \in Sessions :
          /\ session' = s
          /\ securitylist' = buildMessage(s).msg
          /\ err' = buildMessage(s).err
    /\ pc' = "built"
    /\ UNCHANGED <<optionVars, optionMDReqID, optionsTimeout, socketTimeout,
                   timeout, elapsed, chanVars, calls>>

\* Validate called once more after it has succeeded, on the options as it
\* left them (utils.ReconcileBoolFlags succeeding as it did before).
ValidateCall ==
    /\ pc = "Execute"
    /\ \E uid \in UUIDs :
          LET r == Validate(NoError, optionSymbols, optionTypes,
                            optionSubType, optionMDReqID, uid)
          IN  /\ optionMDReqID' = r.optionMDReqID
              /\ err' = r.err
    /\ pc' = "validated"
    /\ UNCHANGED <<optionVars, configVars, timeout, elapsed, chanVars,
                   securitylist, calls>>

NextBuild ==
    \/ PersistentPreRunE
    \/ BuildCall
    \/ ValidateCall

SpecBuild == InitBuild /\ [][NextBuild]_vars

-----------------------------------------------------------------------------
(* Properties *)

\* Number of times quickfix.Send has been invoked.
SendCount == Cardinality({i \in DOMAIN calls : calls[i] = "quickfix.Send"})

\* The run ended with app.Stop() followed by init.Stop().
StoppedInOrder ==
    /\ Len(calls) >= 2
    /\ calls[Len(calls) - 1] = "app.Stop"
    /\ calls[Len(calls)] = "init.Stop"
    /\ Cardinality({i \in DOMAIN calls : calls[i] \in {"app.Stop", "init.Stop"}}) = 2

\* C1: when nothing has been delivered on app.Connected (the channel is open
\* and empty), Execute leaves the wait only once the effective timeout has
\* elapsed, and then it returns ConnectionTimeout with no call made; a run
\* that returned ConnectionTimeout has built no message and never invoked
\* quickfix.Send.
C1_TimeoutNoSend ==
    /\ [](err = ConnectionTimeout =>
            /\ pc = "returned"
            /\ elapsed >= timeout
            /\ securitylist = Nil
            /\ SendCount = 0)
    /\ [][(pc = "select" /\ connected = "open" /\ pc' # "select") =>
            /\ elapsed >= timeout
            /\ pc' = "returned"
            /\ err' = ConnectionTimeout
            /\ calls' = calls
            /\ securitylist' = Nil]_vars

C1_Witness ==
    /\ pc = "returned"
    /\ err = ConnectionTimeout
    /\ connected = "open"
    /\ elapsed = timeout
    /\ calls = <<"init.Start">>

\* C2: the timeout Execute waits with is the CLI option when that is not
\* zero, else the initiator's SocketTimeout when that is not zero, else 5
\* seconds; the timeout branch is taken exactly when that many seconds have
\* elapsed.
C2_EffectiveTimeout ==
    (pc = "select" \/ err = ConnectionTimeout) =>
        /\ optionsTimeout # 0 => timeout = optionsTimeout
        /\ (optionsTimeout = 0 /\ socketTimeout # 0) => timeout = socketTimeout
        /\ (optionsTimeout = 0 /\ socketTimeout = 0) => timeout = 5
        /\ err = ConnectionTimeout => elapsed = (IF timeout > 0 THEN timeout ELSE 0)

C2_Witness ==
    /\ err = ConnectionTimeout
    /\ optionsTimeout # 0
    /\ socketTimeout # 0
    /\ socketTimeout # optionsTimeout
    /\ elapsed = optionsTimeout

\* C3: when app.Connected is closed with no value delivered, the receive
\* branch of the wait returns FixLogout (the timeout branch is the only
\* other way out, and only once the timeout has elapsed); FixLogout is not
\* ConnectionTimeout, and a run that returned it built and sent nothing.
C3_LogoutBeforeConnect ==
    /\ [](err = FixLogout =>
            /\ pc = "returned"
            /\ connected = "closed"
            /\ err # ConnectionTimeout
            /\ securitylist = Nil
            /\ SendCount = 0)
    /\ [][(pc = "select" /\ connected = "closed" /\ pc' # "select") =>
            /\ pc' = "returned"
            /\ \/ err' = FixLogout
               \/ elapsed >= timeout /\ err' = ConnectionTimeout
            /\ calls' = calls
            /\ securitylist' = Nil]_vars

C3_Witness ==
    /\ pc = "returned"
    /\ err = FixLogout
    /\ connected = "closed"
    /\ elapsed < timeout

\* C4: when the streaming loop receives a signal from the interrupt channel,
\* app.Stop() is called, then init.Stop(), the loop exits and Execute
\* returns nil.
C4_SignalStopsAndReturnsNil ==
    [][(pc = "LOOP" /\ Len(interrupt') < Len(interrupt)) =>
            /\ calls' = calls \o <<"app.Stop", "init.Stop">>
            /\ pc' = "returned"
            /\ err' = NoError]_vars

C4_Witness ==
    /\ pc = "returned"
    /\ err = NoError
    /\ calls = <<"init.Start", "<-app.Connected", "quickfix.Send", "app.Stop", "init.Stop">>

\* C5: every return of Execute from the streaming loop (a nil return after
\* the send) has called app.Stop() and then init.Stop().
C5_EveryLoopExitStops ==
    (pc = "returned" /\ err = NoError /\ SendCount = 1) => StoppedInOrder

\* C6: quickfix.Send is invoked at most once, and only after init.Start, the
\* receipt of a Connected event and a successful buildMessage; a run that
\* ended with any earlier error never invoked it; a failed Send ends the run
\* with that error, after one invocation, the streaming loop never entered.
PreSendErrors ==
    ResolveErrors \cup
    {StartError, ConnectionTimeout, FixLogout, FixVersionNotImplemented}

C6_SendOnceAfterConnect ==
    /\ SendCount <= 1
    /\ SendCount = 1 =>
          /\ Len(calls) >= 3
          /\ calls[1] = "init.Start"
          /\ calls[2] = "<-app.Connected"
          /\ calls[3] = "quickfix.Send"
          /\ securitylist # Nil
    /\ pc = "exit" => SendCount = 0
    /\ (pc = "returned" /\ err # NoError /\ err # SendError) =>
          /\ err \in PreSendErrors
          /\ SendCount = 0
    /\ err = SendError =>
          /\ pc = "returned"
          /\ calls = <<"init.Start", "<-app.Connected", "quickfix.Send">>
          /\ interrupt = <<>>
          /\ fromApp = "open"
          /\ delivered = 0
    /\ pc = "LOOP" => (err = NoError /\ SendCount = 1)

C6_Witness ==
    /\ pc = "returned"
    /\ err = SendError
    /\ SendCount = 1

\* C7: buildMessage returns FixVersionNotImplemented and no message for every
\* session whose (BeginString, DefaultApplVerID) is not (FIXT.1.1,
\* FIX.5.0SP2), and a message and no error for that pair; Execute, once
\* connected on an unsupported session, returns that error with
\* quickfix.Send never invoked.
IsFixt11Sp2(sess) ==
    sess.BeginString = "FIXT.1.1" /\ sess.DefaultApplVerID = "FIX.5.0SP2"

C7_UnsupportedVersion ==
    /\ \A s \in Sessions :
          IF IsFixt11Sp2(s)
          THEN buildMessage(s).err = NoError /\ buildMessage(s).msg # Nil
          ELSE buildMessage(s).err = FixVersionNotImplemented /\ buildMessage(s).msg = Nil
    /\ (pc \in {"Send", "LOOP"} \/ SendCount > 0 \/ securitylist # Nil) =>
          IsFixt11Sp2(session)
    /\ (pc = "returned" /\ Len(calls) >= 2 /\ calls[2] = "<-app.Connected"
          /\ ~IsFixt11Sp2(session)) =>
          /\ err = FixVersionNotImplemented
          /\ securitylist = Nil
          /\ SendCount = 0
    /\ err = FixVersionNotImplemented => ~IsFixt11Sp2(session)

C7_Witness ==
    /\ pc = "returned"
    /\ err = FixVersionNotImplemented
    /\ session.BeginString = "FIXT.1.1"
    /\ session.DefaultApplVerID # "FIX.5.0SP2"
    /\ calls = <<"init.Start", "<-app.Connected">>

\* Two strings differ at most in the case of their letters.
CasePairs == {{LowerLetters[j], UpperLetters[j]} : j \in 1..Len(LowerLetters)}

SameIgnoringCase(a, b) ==
    /\ Len(a) = Len(b)
    /\ \A k \in 1..Len(a) : a[k] = b[k] \/ {a[k], b[k]} \in CasePairs

\* The code the entry-type table gives for a token, whatever its case; the
\* empty code when the table has no such token.
EntryCodeIgnoringCase(t) ==
    IF \E key \in DOMAIN MDEntryTypes : SameIgnoringCase(key, t)
    THEN MDEntryTypes[CHOOSE key \in DOMAIN MDEntryTypes : SameIgnoringCase(key, t)]
    ELSE ""

\* C8: for the pair (FIXT.1.1, FIX.5.0SP2) buildMessage returns a message of
\* type MARKET_DATA_REQUEST whose entry-type group has as many instances as
\* optionTypes has elements, the i-th holding the code of the i-th token,
\* and whose symbol group has as many instances as optionSymbols has
\* elements, the i-th holding the i-th symbol: order and duplicates kept.
C8_GroupsFollowInput ==
    (pc = "built" /\ IsFixt11Sp2(session)) =>
        /\ securitylist # Nil
        /\ securitylist.Header.MsgType = "V"
        /\ Len(securitylist.NoMDEntryTypes) = Len(optionTypes)
        /\ \A i \in 1..Len(optionTypes) :
              securitylist.NoMDEntryTypes[i].MDEntryType
                 = EntryCodeIgnoringCase(optionTypes[i])
        /\ Len(securitylist.NoRelatedSym) = Len(optionSymbols)
        /\ \A i \in 1..Len(optionSymbols) :
              securitylist.NoRelatedSym[i].Symbol = optionSymbols[i]

C8_Witness ==
    /\ pc = "built"
    /\ IsFixt11Sp2(session)
    /\ optionSymbols = <<"USD/JPY", "USD/JPY">>
    /\ optionTypes = <<offer, bid>>
    /\ Len(securitylist.NoRelatedSym) = 2
    /\ securitylist.NoMDEntryTypes = <<[MDEntryType |-> "1"], [MDEntryType |-> "0"]>>

\* C9: Validate returns an error when optionSymbols is empty, when
\* optionTypes is empty, when the upper-cased form of some entry-type token
\* is no key of the entry-type table, or when that of the subscription-type
\* token is no key of the subscription-type table; the command then exits
\* with that error and Execute never runs: no call is made on the engine,
\* no session is read, nothing is built or sent.  Validate itself makes no
\* call on the engine.
BadOptions ==
    \/ Len(optionSymbols) = 0
    \/ Len(optionTypes) = 0
    \/ \E i \in 1..Len(optionTypes) : ToUpper(optionTypes[i]) \notin DOMAIN MDEntryTypes
    \/ ToUpper(optionSubType) \notin DOMAIN SubscriptionRequestTypes

C9_ValidationRejects ==
    /\ BadOptions =>
          /\ pc \in {"PersistentPreRunE", "exit"}
          /\ pc = "exit" =>
                err \in {OptionsNoSymbolGiven, OptionsNoTypeGiven, Options, ReconcileError}
    /\ pc = "exit" => err # NoError
    /\ pc \in {"PersistentPreRunE", "exit", "Execute"} =>
          /\ calls = <<>>
          /\ session = NoSession
          /\ connected = "open"
          /\ fromApp = "open"
          /\ securitylist = Nil

C9_Witness ==
    /\ pc = "exit"
    /\ err = Options
    /\ optionTypes = <<bid, ask>>
    /\ Len(optionSymbols) > 0
    /\ calls = <<>>

\* C10: once Validate has run on non-empty lists, it has accepted the options
\* exactly when the upper-cased form of every entry-type token and of the
\* subscription-type token is a key of its table, and otherwise returned
\* errors.Options; replacing a token by one that differs only in letter case
\* changes neither the outcome of Validate nor the message buildMessage
\* returns.
C10_CaseInsensitiveTokens ==
    /\ (/\ pc \in {"Execute", "exit"}
        /\ err \notin {ReconcileError, ParentPreRunError}
        /\ Len(optionSymbols) > 0
        /\ Len(optionTypes) > 0) =>
          /\ err = NoError <=>
                /\ \A i \in 1..Len(optionTypes) :
                      ToUpper(optionTypes[i]) \in DOMAIN MDEntryTypes
                /\ ToUpper(optionSubType) \in DOMAIN SubscriptionRequestTypes
          /\ err # NoError => err = Options
    /\ \A i \in 1..Len(optionTypes) :
          \A t \in {u \in TypeTokens : SameIgnoringCase(optionTypes[i], u)} \ {optionTypes[i]} :
             LET types2 == [optionTypes EXCEPT ![i] = t]
             IN  /\ Validate(NoError, optionSymbols, types2, optionSubType, "req-1", "uuid-1").err
                    = Validate(NoError, optionSymbols, optionTypes, optionSubType, "req-1", "uuid-1").err
                 /\ \A s \in Sessions :
                       BuildMessage(s, optionMDReqID, optionSubType, optionFullSnap,
                                    types2, optionSymbols)
                          = buildMessage(s)
    /\ \A t \in {u \in SubTypeTokens : SameIgnoringCase(optionSubType, u)} \ {optionSubType} :
          /\ Validate(NoError, optionSymbols, optionTypes, t, "req-1", "uuid-1").err
             = Validate(NoError, optionSymbols, optionTypes, optionSubType, "req-1", "uuid-1").err
          /\ \A s \in Sessions :
                BuildMessage(s, optionMDReqID, t, optionFullSnap,
                             optionTypes, optionSymbols)
                   = buildMessage(s)

C10_Witness ==
    /\ pc = "Execute"
    /\ err = NoError
    /\ optionTypes = <<bid, BID>>
    /\ optionSubType = Snapshot

\* C11: for the pair (FIXT.1.1, FIX.5.0SP2) the message's MDUpdateType is
\* FULL_REFRESH exactly when optionFullSnap is true and INCREMENTAL_REFRESH
\* exactly when it is false; the options symbols [EUR/USD], types [bid,
\* offer], subscription type snapshot, full refresh true give a
\* MarketDataRequest with MDUpdateType FULL_REFRESH, one symbol instance and
\* two entry-type instances.
C11_UpdateTypeFollowsFullSnap ==
    (pc = "built" /\ IsFixt11Sp2(session)) =>
        /\ securitylist # Nil
        /\ securitylist.MDUpdateType = MDUpdateType_FULL_REFRESH <=> optionFullSnap
        /\ securitylist.MDUpdateType = MDUpdateType_INCREMENTAL_REFRESH <=> ~optionFullSnap
        /\ (/\ optionSymbols = <<"EUR/USD">>
            /\ optionTypes = <<bid, offer>>
            /\ optionSubType = snapshot
            /\ optionFullSnap) =>
              /\ securitylist.Header.MsgType = "V"
              /\ securitylist.MDUpdateType = MDUpdateType_FULL_REFRESH
              /\ Len(securitylist.NoRelatedSym) = 1
              /\ Len(securitylist.NoMDEntryTypes) = 2

C11_Witness ==
    /\ pc = "built"
    /\ IsFixt11Sp2(session)
    /\ optionSymbols = <<"EUR/USD">>
    /\ optionTypes = <<bid, offer>>
    /\ optionSubType = snapshot
    /\ optionFullSnap
    /\ securitylist.MDUpdateType = MDUpdateType_FULL_REFRESH

\* C12 as claimed: every message buildMessage returns for the pair
\* (FIXT.1.1, FIX.5.0SP2) has a non-empty MDReqID, whether or not Validate
\* ran before the build.
C12_BuilderGeneratesID ==
    (pc = "built" /\ IsFixt11Sp2(session)) => securitylist.MDReqID # ""

\* C12 as amended: the message's MDReqID is optionMDReqID as it stands when
\* buildMessage is called.  Validate, when it succeeds, leaves a supplied id
\* unchanged and replaces an empty one by a non-empty generated id, so a
\* build that follows a successful Validate carries the supplied id or a
\* generated one; buildMessage itself generates nothing.
C12_IDFromOptionSetByValidate ==
    /\ []((pc = "built" /\ IsFixt11Sp2(session)) =>
            securitylist.MDReqID = optionMDReqID)
    /\ [](pc = "Execute" => optionMDReqID # "")
    /\ [][(pc = "PersistentPreRunE" /\ pc' = "Execute") =>
            /\ optionMDReqID # "" => optionMDReqID' = optionMDReqID
            /\ optionMDReqID = "" => optionMDReqID' \in UUIDs]_vars
    /\ [][pc' = "built" => optionMDReqID' = optionMDReqID]_vars
    /\ [][(pc = "Execute" /\ pc' = "built" /\ IsFixt11Sp2(session')) =>
            /\ securitylist'.MDReqID # ""
            /\ securitylist'.MDReqID = optionMDReqID]_vars

C12_Witness ==
    /\ pc = "built"
    /\ IsFixt11Sp2(session)
    /\ securitylist.MDReqID \in UUIDs
    /\ optionMDReqID = securitylist.MDReqID

\* C13 as claimed: for a snapshot request, once a response has been received
\* on FromAppChan, Execute leaves the streaming loop and returns, with no
\* signal and no close of the channel needed.
C13_SnapshotLoopDrains ==
    (/\ pc = "LOOP"
     /\ ToUpper(optionSubType) = SNAPSHOT
     /\ delivered >= 1
     /\ fromApp = "open") ~> (pc = "returned")

\* C13 as amended: for every request, Execute leaves the streaming loop only
\* by receiving a signal from the interrupt channel or by finding
\* FromAppChan closed, and once a signal is pending or the channel is closed
\* it does return; the number of responses received plays no part.
C13_LoopEndsOnlyOnSignalOrClose ==
    /\ [][(pc = "LOOP" /\ pc' # "LOOP") =>
            /\ pc' = "returned"
            /\ Len(interrupt') < Len(interrupt) \/ fromApp = "closed"]_vars
    /\ (pc = "LOOP" /\ (interrupt # <<>> \/ fromApp = "closed")) ~> (pc = "returned")

C13_Witness ==
    /\ pc = "LOOP"
    /\ ToUpper(optionSubType) = SNAPSHOT
    /\ delivered >= 1
    /\ fromApp = "open"
    /\ interrupt = <<>>

\* C14: in the streaming loop, finding FromAppChan closed ends the loop and
\* Execute returns nil; receiving a value from it, however many times,
\* leaves Execute in the loop with no error and no call made.
C14_CloseEndsLoopMessagesDoNot ==
    /\ [](pc = "LOOP" => err = NoError)
    /\ [][(pc = "LOOP" /\ fromApp = "closed" /\ pc' # "LOOP"
             /\ interrupt' = interrupt) =>
            /\ pc' = "returned"
            /\ err' = NoError]_vars
    /\ [][(pc = "LOOP" /\ fromApp = "ready" /\ fromApp' = "open") =>
            /\ pc' = "LOOP"
            /\ err' = NoError
            /\ calls' = calls]_vars
    /\ []((pc = "returned" /\ fromApp = "closed") => err = NoError)

C14_Witness ==
    /\ pc = "returned"
    /\ err = NoError
    /\ fromApp = "closed"
    /\ delivered >= 2
    /\ interrupt = <<>>

\* The wait for the connection ends, by exactly one of its three outcomes.
WaitEnds ==
    /\ (pc \in {"timeout", "select"}) ~> (pc \notin {"timeout", "select"})
    /\ [][(pc = "select" /\ pc' # "select") =>
            \/ pc' = "buildMessage" /\ err' = NoError /\ connected = "ready"
            \/ pc' = "returned" /\ err' = ConnectionTimeout /\ elapsed >= timeout
            \/ pc' = "returned" /\ err' = FixLogout /\ connected = "closed"]_vars

\* C15 as claimed: once the initiator is started the wait for the connection
\* ends by exactly one of Connected received, ConnectionTimeout and
\* FixLogout, whatever the engine does, and the effective timeout is always
\* strictly positive.
C15_WaitEndsTimeoutPositive ==
    /\ WaitEnds
    /\ [](pc = "select" => timeout > 0)

\* C15 as amended: once the initiator is started the wait for the connection
\* ends by exactly one of Connected received, ConnectionTimeout and
\* FixLogout, whatever the engine does, because the timer always fires: the
\* effective timeout is never zero, and a negative one has elapsed at once.
C15_WaitEndsTimeoutNonZero ==
    /\ WaitEnds
    /\ [](pc = "select" => timeout # 0)
    /\ []((pc = "select" /\ timeout < 0) => elapsed >= timeout)

C15_Witness ==
    /\ pc = "returned"
    /\ err = ConnectionTimeout
    /\ connected = "open"
    /\ timeout < 0
    /\ elapsed = 0

\* C16: whenever Execute has returned after init.Start() succeeded, on the
\* failure paths as well, app.Stop() and init.Stop() have been called.
C16_StartedInitiatorStopped ==
    (/\ pc = "returned"
     /\ Len(calls) >= 1
     /\ calls[1] = "init.Start"
     /\ err # StartError) =>
        /\ \E i \in DOMAIN calls : calls[i] = "app.Stop"
        /\ \E i \in DOMAIN calls : calls[i] = "init.Stop"

\* C17: after a successful Validate the request id is not empty, and a
\* further call of Validate on the same options succeeds, leaves the request
\* id (a generated one included), the symbols, the entry types and the
\* subscription type as they were; no call of Validate changes the lists or
\* the subscription type, and one that fails leaves the request id as it was.
ValidationErrors ==
    {OptionsNoSymbolGiven, OptionsNoTypeGiven, Options, ReconcileError}

C17_ValidateIdempotent ==
    /\ [](pc = "Execute" => optionMDReqID # "")
    /\ [][(pc = "Execute" /\ pc' = "validated") =>
            /\ err' = NoError
            /\ optionMDReqID' = optionMDReqID
            /\ optionMDReqID' # ""
            /\ optionVars' = optionVars]_vars
    /\ [][(pc = "PersistentPreRunE" /\ pc' # pc) => optionVars' = optionVars]_vars
    /\ [][(pc = "PersistentPreRunE" /\ pc' = "exit" /\ err' \in ValidationErrors) =>
            optionMDReqID' = optionMDReqID]_vars

C17_Witness ==
    /\ pc = "validated"
    /\ err = NoError
    /\ optionMDReqID \in UUIDs

====
